---- MODULE Spec2Model ----
(***************************************************************************)
(* FamilyOS browser client: the active-family resolver (the hook           *)
(* useActiveFamily, one instance per consuming component) and the chat     *)
(* page's live message list (ChatPage).                                    *)
(***************************************************************************)
EXTENDS Naturals, Integers, Sequences, FiniteSets, Bags, TLC

(***************************************************************************)
(* Bounds and value sets                                                   *)
(***************************************************************************)
\* longest membership list the server returns
MaxList == 2
\* membership reads one hook instance may have in flight
MaxReads == 2

\* rows the server's chat_messages table ever holds
MaxMsgs == 2
\* loadMessages queries in flight
MaxLoads == 2
\* change events the channel delivers a second time
MaxDups == 1

\* messages a family has beyond the limit of the bootstrap query
MaxOver == 2
\* calls ShoppingPage or CalendarPage has in flight
MaxCalls == 2
\* rows a page's table ever holds
MaxItems == 1
\* .limit(100) of loadMessages
Limit == 100

Null == "null"
FamilyIds == {"A", "B", "C"}
Users == {"u1", "u2"}
\* hook instances: components that call useActiveFamily()
Consumers == {1, 2}

\* families the chat page is shown for
\* the pages with a mutation form
Views == {"shopping", "calendar"}

\* what the textarea of ChatPage holds
Texts == {"", "  ", "hi", " hi "}

ChatFams == {"A", "B"}

Elems(s) == {s[i] : i \in 1..Len(s)}

Min(a, b) == IF a < b THEN a ELSE b

\* duplicate-free lists of family ids: the rows of one user's active memberships
Lists ==
  {s \in UNION {[1..n -> FamilyIds] : n \in 0..MaxList} :
     \A i, j \in 1..Len(s) : i /= j => s[i] /= s[j]}

VARIABLES
  membership,   \* server: user -> ordered list of that user's active families
  session,      \* signed-in user, or Null
  ls,           \* localStorage[LS_KEY], or Null
  mounted,      \* hook instances that exist
  families,     \* per instance: useState families
  act,          \* per instance: useState activeFamilyId
  loading,      \* per instance: useState loading
  error,        \* per instance: useState error
  reads,        \* per instance: bag of in-flight membership reads
  byUser,       \* history: the last write of act[c] was setActiveFamily
  clean,        \* history: no setActiveFamily, no failed read, every list read held ls0
  ls0,          \* history: localStorage[LS_KEY] at process start
  last,         \* history: the handler that ran last
  rows,         \* server: chat_messages, row i has id i and is the i-th created
  chatFam,      \* ChatPage: activeFamilyId of its current render
  messages,     \* ChatPage: useState messages, as the ids in view order
  chatLoading,  \* ChatPage: useState loading
  loads,        \* ChatPage: bag of in-flight loadMessages queries
  channel,      \* ChatPage: family of the subscribed channel, or Null
  channels,     \* supabase client: families of the channels it holds open
  events,       \* change events of the channel not yet handed to a handler
  fetches,      \* ChatPage: bag of ids whose INSERT handler awaits the full row
  dups,         \* number of events the channel has delivered twice
  mark,         \* ChatPage: the mark_messages_as_read call issued last, until it settles
  pub,          \* history: ids whose INSERT event the current channel was given
                \* and whose full-row fetch has not come back empty
  struck,       \* history: an UPDATE handler has removed a message that was shown
  newMessage,   \* ChatPage: useState newMessage
  replyTo,      \* ChatPage: useState replyTo, as the id of the message or 0 for null
  sending,      \* ChatPage: useState sending
  outbox,       \* ChatPage: bag of chat_messages insert calls in flight
  uploads,      \* ChatPage: bag of family-media uploads in flight
  tried,        \* history: the composer handler that was called last
  page,         \* the page the router has mounted: "shopping", "calendar" or Null
  pfam,         \* that page: activeFamilyId of its current render
  pform,        \* that page: the form is filled (title.trim() is not empty)
  perr,         \* that page: useState err
  pbusy,        \* that page: useState busy
  ptable,       \* server: rows of shopping_items and of events
  pitems,       \* that page: rows in useState items
  pcalls,       \* that page: bag of its calls in flight
  plast         \* history: the page handler that ran last

rvars == <<membership, session, ls, mounted, families, act, loading, error,
           reads, byUser, clean, ls0, last>>

cvars == <<rows, chatFam, messages, chatLoading, loads, channel, channels, events,
           fetches, dups, mark, pub, struck>>

svars == <<newMessage, replyTo, sending, outbox, uploads, tried>>

pvars == <<page, pfam, pform, perr, pbusy, ptable, pitems, pcalls, plast>>

vars == <<rvars, cvars, svars, pvars>>

(***************************************************************************)
(* useActiveFamily                                                         *)
(***************************************************************************)
\* the in-flight query of one run of the membership effect: the closure's
\* activeFamilyId and session.user.id; fresh marks a run that was re-triggered
\* by the selection change of a successful read
Read(cap, user, fresh) == [cap |-> cap, user |-> user, fresh |-> fresh]

ReadRecords == [cap : FamilyIds \cup {Null}, user : Users, fresh : BOOLEAN]

NoLast == [op |-> "none", c |-> 0, cap |-> Null, user |-> Null, fresh |-> FALSE,
           arg |-> Null]

Did(op, c, r, arg) ==
  [op |-> op, c |-> c, cap |-> r.cap, user |-> r.user, fresh |-> r.fresh, arg |-> arg]

InFlight(c) == BagCardinality(reads[c])

\* opts.some((o) => o.family_id === activeFamilyId)
Some(opts, id) == \E i \in 1..Len(opts) : opts[i] = id

\* Override without its second branch: a stale candidate is never replaced
OverrideOnlyUnset(cap, opts) == cap = Null /\ Len(opts) > 0

\* the two branches that replace the selection by opts[0]
Override(cap, opts) ==
  \/ cap = Null /\ Len(opts) > 0
  \/ cap /= Null /\ ~Some(opts, cap) /\ Len(opts) > 0

\* setFamilies that accumulates the rows instead of replacing them
SetFamiliesAppend(prev, opts) == prev \o opts

\* setFamilies(opts)
SetFamilies(prev, opts) == opts

\* localStorage.setItem(LS_KEY, opts[0].family_id) left out of the override
PersistSkipped(old, id) == old

\* localStorage.setItem(LS_KEY, id)
Persist(old, id) == id

\* what the membership effect does when it runs: nothing without a session,
\* else setLoading(true), setError(null) and one more query in flight
Issue(c, rd, cap, fresh) ==
  IF session = Null THEN rd ELSE rd (+) SetToBag({Read(cap, session, fresh)})

\* no mark_messages_as_read call is outstanding
NoCall == [fam |-> Null, id |-> 0]

\* no composer handler has been called yet
NoTry == [op |-> "none", file |-> FALSE, fam |-> Null, text |-> ""]

\* one signed-in identity: only u1 ever signs in, u2 has no memberships
InitResolver ==
  /\ membership \in {m \in [Users -> Lists] : m["u2"] = <<>>}
  /\ session = Null
  /\ ls \in FamilyIds \cup {Null}
  /\ mounted = {}
  /\ families = [c \in Consumers |-> <<>>]
  /\ act = [c \in Consumers |-> Null]
  /\ loading = [c \in Consumers |-> TRUE]
  /\ error = [c \in Consumers |-> Null]
  /\ reads = [c \in Consumers |-> EmptyBag]
  /\ byUser = [c \in Consumers |-> FALSE]
  /\ clean = TRUE
  /\ ls0 = ls
  /\ last = NoLast

InitPages ==
  /\ page = Null
  /\ pfam = Null
  /\ pform = FALSE
  /\ perr = Null
  /\ pbusy = FALSE
  /\ ptable = [v \in Views |-> 0]
  /\ pitems = 0
  /\ pcalls = EmptyBag
  /\ plast = "none"

InitSend ==
  /\ newMessage = ""
  /\ replyTo = 0
  /\ sending = FALSE
  /\ outbox = EmptyBag
  /\ uploads = EmptyBag
  /\ tried = NoTry
  /\ InitPages

InitChat ==
  /\ rows = <<>>
  /\ chatFam = Null
  /\ messages = <<>>
  /\ chatLoading = TRUE
  /\ loads = EmptyBag
  /\ channel = Null
  /\ channels = {}
  /\ events = <<>>
  /\ fetches = EmptyBag
  /\ dups = 0
  /\ mark = NoCall
  /\ pub = {}
  /\ struck = FALSE
  /\ InitSend

Init == InitResolver /\ InitChat

\* first render and the two effects of a new instance: the load from
\* localStorage, the membership effect with activeFamilyId still null, and
\* the membership effect again after the re-render with the loaded value
Mount(c) ==
  /\ c \notin mounted
  /\ mounted' = mounted \cup {c}
  /\ act' = [act EXCEPT ![c] = ls]
  /\ LET first == Issue(c, EmptyBag, Null, FALSE)
         second == IF ls /= Null THEN Issue(c, first, ls, FALSE) ELSE first
     IN reads' = [reads EXCEPT ![c] = second]
  /\ loading' = [loading EXCEPT ![c] = TRUE]
  /\ error' = [error EXCEPT ![c] = Null]
  /\ last' = [NoLast EXCEPT !.op = "Mount", !.c = c]
  /\ UNCHANGED <<membership, session, ls, families, byUser, clean, ls0>>
  /\ UNCHANGED <<cvars, svars, pvars>>

\* useSession yields another session: the membership effect of every instance
\* runs again with the selection of its current render
SessionChange(u) ==
  /\ u \in Users \cup {Null}
  /\ u /= session
  /\ \A c \in mounted : u /= Null => InFlight(c) < MaxReads
  /\ session' = u
  /\ reads' = [c \in Consumers |->
                 IF c \in mounted /\ u /= Null
                 THEN reads[c] (+) SetToBag({Read(act[c], u, FALSE)})
                 ELSE reads[c]]
  /\ loading' = [c \in Consumers |->
                   IF c \in mounted /\ u /= Null THEN TRUE ELSE loading[c]]
  /\ error' = [c \in Consumers |->
                 IF c \in mounted /\ u /= Null THEN Null ELSE error[c]]
  /\ last' = [NoLast EXCEPT !.op = "SessionChange", !.user = u]
  /\ UNCHANGED <<membership, ls, mounted, families, act, byUser, clean, ls0>>
  /\ UNCHANGED <<cvars, svars, pvars>>

\* setActiveFamily(familyId)
SetActiveFamily(c, id) ==
  /\ c \in mounted
  /\ id \in FamilyIds
  /\ LET rerun == id /= act[c] /\ session /= Null
     IN /\ rerun => InFlight(c) < MaxReads
        /\ reads' = [reads EXCEPT ![c] =
                       IF rerun THEN Issue(c, reads[c], id, FALSE) ELSE reads[c]]
        /\ loading' = [loading EXCEPT ![c] = IF rerun THEN TRUE ELSE loading[c]]
        /\ error' = [error EXCEPT ![c] = IF rerun THEN Null ELSE error[c]]
  /\ act' = [act EXCEPT ![c] = id]
  /\ ls' = Persist(ls, id)
  /\ byUser' = [byUser EXCEPT ![c] = TRUE]
  /\ clean' = FALSE
  /\ last' = [NoLast EXCEPT !.op = "SetActiveFamily", !.c = c, !.arg = id]
  /\ UNCHANGED <<membership, session, mounted, families, ls0>>
  /\ UNCHANGED <<cvars, svars, pvars>>

\* the error branch also clearing the selection
ReadFailClears(c, r) ==
  /\ c \in mounted
  /\ BagIn(r, reads[c])
  /\ reads' = [reads EXCEPT ![c] = reads[c] (-) SetToBag({r})]
  /\ error' = [error EXCEPT ![c] = "error"]
  /\ families' = [families EXCEPT ![c] = <<>>]
  /\ loading' = [loading EXCEPT ![c] = FALSE]
  /\ act' = [act EXCEPT ![c] = Null]
  /\ clean' = FALSE
  /\ last' = Did("ReadFail", c, r, Null)
  /\ UNCHANGED <<membership, session, ls, mounted, byUser, ls0>>
  /\ UNCHANGED <<cvars, svars, pvars>>

\* the query of read r resolves with an error
ReadFail(c, r) ==
  /\ c \in mounted
  /\ BagIn(r, reads[c])
  /\ reads' = [reads EXCEPT ![c] = reads[c] (-) SetToBag({r})]
  /\ error' = [error EXCEPT ![c] = "error"]
  /\ families' = [families EXCEPT ![c] = <<>>]
  /\ loading' = [loading EXCEPT ![c] = FALSE]
  /\ clean' = FALSE
  /\ last' = Did("ReadFail", c, r, Null)
  /\ UNCHANGED <<membership, session, ls, mounted, act, byUser, ls0>>
  /\ UNCHANGED <<cvars, svars, pvars>>

\* the query of read r resolves with the rows of r.user
ReadOk(c, r) ==
  /\ c \in mounted
  /\ BagIn(r, reads[c])
  /\ LET opts == membership[r.user]
         ov == Override(r.cap, opts)
         newAct == IF ov THEN opts[1] ELSE act[c]
         rest == reads[c] (-) SetToBag({r})
         rerun == newAct /= act[c] /\ session /= Null
     IN /\ families' = [families EXCEPT ![c] = SetFamilies(families[c], opts)]
        /\ act' = [act EXCEPT ![c] = newAct]
        /\ ls' = IF ov THEN Persist(ls, opts[1]) ELSE ls
        /\ reads' = [reads EXCEPT ![c] =
                       IF rerun THEN Issue(c, rest, newAct, TRUE) ELSE rest]
        /\ loading' = [loading EXCEPT ![c] = rerun]
        /\ error' = [error EXCEPT ![c] = IF rerun THEN Null ELSE error[c]]
        /\ byUser' = [byUser EXCEPT ![c] = IF ov THEN FALSE ELSE byUser[c]]
        /\ clean' = (clean /\ (ls0 = Null \/ Some(opts, ls0)))
  /\ last' = Did("ReadOk", c, r, Null)
  /\ UNCHANGED <<membership, session, mounted, ls0>>
  /\ UNCHANGED <<cvars, svars, pvars>>

(***************************************************************************)
(* ChatPage                                                                *)
(***************************************************************************)
Row(fam) == [fam |-> fam, deleted |-> FALSE, edited |-> FALSE]


\* an effect that marks the first message shown
MarkReadFirst(fam, msgs) ==
  IF fam = Null \/ Len(msgs) = 0 THEN mark ELSE [fam |-> fam, id |-> msgs[1]]

\* the mark-as-read effect, run after a render with a new activeFamilyId or a
\* new messages array: it returns early without a family or without messages
MarkRead(fam, msgs) ==
  IF fam = Null \/ Len(msgs) = 0 THEN mark ELSE [fam |-> fam, id |-> msgs[Len(msgs)]]

\* an in-flight loadMessages query: the family of the closure and, once the
\* server has run the query, its rows
Load(fam, res) == [fam |-> fam, res |-> res]

Pending == <<0>>

\* the results a loadMessages query can have: ids in ascending created_at
Results ==
  {s \in UNION {[1..n -> 1..MaxMsgs] : n \in 0..MaxMsgs} :
     \A i, j \in 1..Len(s) : i < j => s[i] < s[j]}

LoadRecords == [fam : ChatFams, res : {Pending} \cup Results]

\* a postgres_changes event: payload.new.id and payload.new.is_deleted
Event(kind, id, deleted) == [kind |-> kind, id |-> id, deleted |-> deleted]

\* .eq('family_id', fam).eq('is_deleted', false).order('created_at').limit(100)
QueryMessages(fam) ==
  LET ids == [i \in 1..Len(rows) |-> i]
      Keep(i) == rows[i].fam = fam /\ ~rows[i].deleted
      asc == SelectSeq(ids, Keep)
  IN SubSeq(asc, 1, Min(Len(asc), Limit))

\* a filter that drops the first element when id is shown
WithoutHead(prev, id) ==
  IF id \in Elems(prev) THEN Tail(prev) ELSE prev

\* prev.filter(m => m.id !== id)
Without(prev, id) ==
  LET Other(m) == m /= id IN SelectSeq(prev, Other)

\* setMessages(prev => [...prev, data])
AppendMessage(prev, id) == Append(prev, id)

\* the events of a change of row id reach the channel of the row's family
Publish(kind, id, fam, deleted) ==
  IF channel = fam THEN Append(events, Event(kind, id, deleted)) ELSE events

\* a member inserts a message of family f
ServerInsert(f) ==
  /\ f \in ChatFams
  /\ Len(rows) < MaxMsgs
  /\ rows' = Append(rows, Row(f))
  /\ events' = Publish("INSERT", Len(rows) + 1, f, FALSE)
  /\ pub' = IF channel = f THEN pub \cup {Len(rows) + 1} ELSE pub
  /\ UNCHANGED <<chatFam, messages, chatLoading, loads, channel, channels, fetches, dups,
                 mark, struck>>
  /\ UNCHANGED <<rvars, svars, pvars>>

\* a member soft-deletes message i
ServerDelete(i) ==
  /\ i \in 1..Len(rows)
  /\ ~rows[i].deleted
  /\ rows' = [rows EXCEPT ![i].deleted = TRUE]
  /\ events' = Publish("UPDATE", i, rows[i].fam, TRUE)
  /\ UNCHANGED <<chatFam, messages, chatLoading, loads, channel, channels, fetches, dups,
                 mark, pub, struck>>
  /\ UNCHANGED <<rvars, svars, pvars>>

\* a member changes message i without touching is_deleted
ServerEdit(i) ==
  /\ i \in 1..Len(rows)
  /\ ~rows[i].edited
  /\ rows' = [rows EXCEPT ![i].edited = TRUE]
  /\ events' = Publish("UPDATE", i, rows[i].fam, rows[i].deleted)
  /\ UNCHANGED <<chatFam, messages, chatLoading, loads, channel, channels, fetches, dups,
                 mark, pub, struck>>
  /\ UNCHANGED <<rvars, svars, pvars>>

\* a subscription effect without cleanup: the channel of the previous family
\* stays open
ChatSelectLeaks(f) ==
  /\ f \in ChatFams
  /\ f /= chatFam
  /\ BagCardinality(loads) < MaxLoads
  /\ chatFam' = f
  /\ loads' = loads (+) SetToBag({Load(f, Pending)})
  /\ channel' = f
  /\ channels' = channels \cup {f}
  /\ events' = <<>>
  /\ mark' = MarkRead(f, messages)
  /\ pub' = {}
  /\ UNCHANGED <<rows, messages, chatLoading, fetches, dups, struck>>
  /\ UNCHANGED <<rvars, svars, pvars>>

\* activeFamilyId of ChatPage becomes f: the cleanup of the subscription
\* effect removes the channel, and the effect runs again: loadMessages() and
\* a channel for f
ChatSelect(f) ==
  /\ f \in ChatFams
  /\ f /= chatFam
  /\ BagCardinality(loads) < MaxLoads
  /\ chatFam' = f
  /\ loads' = loads (+) SetToBag({Load(f, Pending)})
  /\ channel' = f
  /\ channels' = (channels \ {channel}) \cup {f}
  /\ events' = <<>>
  /\ mark' = MarkRead(f, messages)
  /\ pub' = {}
  /\ UNCHANGED <<rows, messages, chatLoading, fetches, dups, struck>>
  /\ UNCHANGED <<rvars, svars, pvars>>

\* the server runs the query of an in-flight loadMessages
LoadAnswer(l) ==
  /\ BagIn(l, loads)
  /\ l.res = Pending
  /\ loads' = (loads (-) SetToBag({l})) (+) SetToBag({Load(l.fam, QueryMessages(l.fam))})
  /\ UNCHANGED <<rows, chatFam, messages, chatLoading, channel, channels, events, fetches, dups,
                 mark, pub, struck>>
  /\ UNCHANGED <<rvars, svars, pvars>>

\* loadMessages resumes with the rows
LoadDone(l) ==
  /\ BagIn(l, loads)
  /\ l.res /= Pending
  /\ loads' = loads (-) SetToBag({l})
  /\ messages' = l.res
  /\ chatLoading' = FALSE
  /\ mark' = MarkRead(chatFam, l.res)
  /\ UNCHANGED <<rows, chatFam, channel, channels, events, fetches, dups, pub, struck>>
  /\ UNCHANGED <<rvars, svars, pvars>>

\* loadMessages resumes with an error
LoadFail(l) ==
  /\ BagIn(l, loads)
  /\ loads' = loads (-) SetToBag({l})
  /\ chatLoading' = FALSE
  /\ UNCHANGED <<rows, chatFam, messages, channel, channels, events, fetches, dups,
                 mark, pub, struck>>
  /\ UNCHANGED <<rvars, svars, pvars>>

\* what the handlers of the channel do with event e
Handle(e) ==
  /\ fetches' = IF e.kind = "INSERT" THEN fetches (+) SetToBag({e.id}) ELSE fetches
  /\ messages' = IF e.kind = "UPDATE" /\ e.deleted
                  THEN Without(messages, e.id) ELSE messages
  /\ mark' = IF e.kind = "UPDATE" /\ e.deleted
              THEN MarkRead(chatFam, Without(messages, e.id)) ELSE mark
  /\ struck' = (struck \/ (e.kind = "UPDATE" /\ e.deleted /\ e.id \in Elems(messages)))

\* the channel hands its oldest event to the handler
Deliver ==
  /\ events /= <<>>
  /\ Handle(Head(events))
  /\ events' = Tail(events)
  /\ UNCHANGED <<rows, chatFam, chatLoading, loads, channel, channels, dups, pub>>
  /\ UNCHANGED <<rvars, svars, pvars>>

\* at-least-once delivery: the oldest event is handled and will come again
Redeliver ==
  /\ events /= <<>>
  /\ dups < MaxDups
  /\ Handle(Head(events))
  /\ dups' = dups + 1
  /\ UNCHANGED <<rows, chatFam, chatLoading, loads, channel, channels, events, pub>>
  /\ UNCHANGED <<rvars, svars, pvars>>

\* the INSERT handler resumes with the full row
FetchDone(id) ==
  /\ BagIn(id, fetches)
  /\ fetches' = fetches (-) SetToBag({id})
  /\ messages' = AppendMessage(messages, id)
  /\ mark' = MarkRead(chatFam, AppendMessage(messages, id))
  /\ UNCHANGED <<rows, chatFam, chatLoading, loads, channel, channels, events, dups,
                 pub, struck>>
  /\ UNCHANGED <<rvars, svars, pvars>>

\* the INSERT handler resumes without data
FetchFail(id) ==
  /\ BagIn(id, fetches)
  /\ fetches' = fetches (-) SetToBag({id})
  /\ pub' = pub \ {id}
  /\ UNCHANGED <<rows, chatFam, messages, chatLoading, loads, channel, channels, events, dups,
                 mark, struck>>
  /\ UNCHANGED <<rvars, svars, pvars>>

\* the mark_messages_as_read call settles; .catch(() => { }) drops a failure
\* and nothing is done with a success
MarkSettle ==
  /\ mark /= NoCall
  /\ mark' = NoCall
  /\ UNCHANGED <<rows, chatFam, messages, chatLoading, loads, channel, channels, events,
                 fetches, dups, pub, struck>>
  /\ UNCHANGED <<rvars, svars, pvars>>

(***************************************************************************)
(* ChatPage: the composer                                                  *)
(***************************************************************************)
\* String.prototype.trim on the texts of the model
Trim(t) == IF t = "  " THEN "" ELSE IF t = " hi " THEN "hi" ELSE t

\* myMember of ChatPage: useActiveFamily() returns an object without a
\* myMember property, so the destructured value is undefined in every render
MyMember == Null

\* the row object given to supabase.from('chat_messages').insert
InsertCall(fam, sender, content, media, reply) ==
  [fam |-> fam, sender |-> sender, content |-> content, media |-> media,
   reply |-> reply]

\* supabase.storage.from('family-media').upload under `${activeFamilyId}/...`
UploadCall(fam, reply) == [path |-> fam, reply |-> reply]

\* a call of a composer handler: the handler, the file it was given, and the
\* family and the text of the render it was called in
Try(op, file) == [op |-> op, file |-> file, fam |-> chatFam, text |-> newMessage]

\* onChange of the textarea
TypeText(t) ==
  /\ t \in Texts
  /\ t /= newMessage
  /\ newMessage' = t
  /\ UNCHANGED <<replyTo, sending, outbox, uploads, tried>>
  /\ UNCHANGED <<rvars, cvars, pvars>>

\* the reply button of a shown message, or the cancel button of the reply bar
SetReplyTo(i) ==
  /\ i \in Elems(messages) \cup {0}
  /\ i /= replyTo
  /\ replyTo' = i
  /\ UNCHANGED <<newMessage, sending, outbox, uploads, tried>>
  /\ UNCHANGED <<rvars, cvars, pvars>>

\* a sendMessage that does not look at myMember
SendMessageAnyone ==
  /\ tried' = Try("sendMessage", FALSE)
  /\ IF Trim(newMessage) = "" \/ chatFam = Null \/ sending
     THEN UNCHANGED <<sending, outbox>>
     ELSE /\ sending' = TRUE
          /\ outbox' = outbox (+) SetToBag({InsertCall(chatFam, MyMember,
                                       Trim(newMessage), FALSE, replyTo)})
  /\ UNCHANGED <<newMessage, replyTo, uploads>>
  /\ UNCHANGED <<rvars, cvars, pvars>>

\* sendMessage up to its await: submit of the form or Enter in the textarea
SendMessage ==
  /\ tried' = Try("sendMessage", FALSE)
  /\ IF Trim(newMessage) = "" \/ chatFam = Null \/ MyMember = Null \/ sending
     THEN UNCHANGED <<sending, outbox>>
     ELSE /\ sending' = TRUE
          /\ outbox' = outbox (+) SetToBag({InsertCall(chatFam, MyMember,
                                       Trim(newMessage), FALSE, replyTo)})
  /\ UNCHANGED <<newMessage, replyTo, uploads>>
  /\ UNCHANGED <<rvars, cvars, pvars>>

\* sendMessage after its await: the insert call c has settled
SendDone(c, ok) ==
  /\ BagIn(c, outbox)
  /\ ~c.media
  /\ outbox' = outbox (-) SetToBag({c})
  /\ newMessage' = IF ok THEN "" ELSE newMessage
  /\ replyTo' = IF ok THEN 0 ELSE replyTo
  /\ sending' = FALSE
  /\ UNCHANGED <<uploads, tried>>
  /\ UNCHANGED <<rvars, cvars, pvars>>

\* a handleFileSelect that also puts the file into the sequence
HandleFileSelectAppends(file) ==
  /\ tried' = Try("handleFileSelect", file)
  /\ messages' = IF ~file \/ chatFam = Null THEN messages ELSE Append(messages, 0)
  /\ UNCHANGED <<newMessage, replyTo, sending, outbox, uploads>>
  /\ UNCHANGED <<rows, chatFam, chatLoading, loads, channel, channels, events, fetches,
                 dups, mark, pub, struck>>
  /\ UNCHANGED <<rvars, pvars>>

\* handleFileSelect up to its first await: onChange of the file input, with
\* or without a file in e.target.files
HandleFileSelect(file) ==
  /\ tried' = Try("handleFileSelect", file)
  /\ IF ~file \/ chatFam = Null \/ MyMember = Null
     THEN UNCHANGED <<sending, uploads>>
     ELSE /\ sending' = TRUE
          /\ uploads' = uploads (+) SetToBag({UploadCall(chatFam, replyTo)})
  /\ UNCHANGED <<newMessage, replyTo, outbox>>
  /\ UNCHANGED <<rvars, cvars, pvars>>

\* handleFileSelect after the upload u has settled: on an error it gives up,
\* otherwise it issues the insert with the public URL
UploadDone(u, ok) ==
  /\ BagIn(u, uploads)
  /\ uploads' = uploads (-) SetToBag({u})
  /\ sending' = IF ok THEN sending ELSE FALSE
  /\ outbox' = IF ok
               THEN outbox (+) SetToBag({InsertCall(u.path, MyMember, Null, TRUE,
                                                    u.reply)})
               ELSE outbox
  /\ UNCHANGED <<newMessage, replyTo, tried>>
  /\ UNCHANGED <<rvars, cvars, pvars>>

\* handleFileSelect after the insert c of the media message has settled; its
\* result is not looked at
MediaDone(c) ==
  /\ BagIn(c, outbox)
  /\ c.media
  /\ outbox' = outbox (-) SetToBag({c})
  /\ replyTo' = 0
  /\ sending' = FALSE
  /\ UNCHANGED <<newMessage, uploads, tried>>
  /\ UNCHANGED <<rvars, cvars, pvars>>

(***************************************************************************)
(* ShoppingPage and CalendarPage: one of them is mounted at a time         *)
(***************************************************************************)
\* the page of call c is still the mounted one
Live(c) == BagIn(c, pcalls)

PageCall(kind) == [kind |-> kind]

CallsInFlight == BagCardinality(pcalls)

\* load() up to its await, with a family resolved: setErr(null) and the query;
\* kind tells whether addItem awaits it
LoadStarts(calls, kind) == calls (+) SetToBag({PageCall(kind)})

\* the router mounts page v: first render with the initial useState values
PageMount(v) ==
  /\ v \in Views
  /\ page = Null
  /\ page' = v
  /\ plast' = "mount"
  /\ UNCHANGED <<pfam, pform, perr, pbusy, ptable, pitems, pcalls>>
  /\ UNCHANGED <<rvars, cvars, svars>>

\* the router unmounts the page: its state is dropped, and what its calls in
\* flight set later is set on no component
PageLeave ==
  /\ page /= Null
  /\ page' = Null
  /\ pfam' = Null
  /\ pform' = FALSE
  /\ perr' = Null
  /\ pbusy' = FALSE
  /\ pitems' = 0
  /\ pcalls' = EmptyBag
  /\ plast' = "leave"
  /\ UNCHANGED ptable
  /\ UNCHANGED <<rvars, cvars, svars>>

\* activeFamilyId of the page becomes a family: useEffect(() => { load() })
PageResolve ==
  /\ page /= Null
  /\ pfam = Null
  /\ CallsInFlight < MaxCalls
  /\ pfam' = "A"
  /\ perr' = Null
  /\ pcalls' = LoadStarts(pcalls, "load")
  /\ plast' = "resolve"
  /\ UNCHANGED <<page, pform, pbusy, ptable, pitems>>
  /\ UNCHANGED <<rvars, cvars, svars>>

\* the user fills the form of the page
FillForm ==
  /\ page /= Null
  /\ ~pform
  /\ pform' = TRUE
  /\ plast' = "fill"
  /\ UNCHANGED <<page, pfam, perr, pbusy, ptable, pitems, pcalls>>
  /\ UNCHANGED <<rvars, cvars, svars>>

\* addItem (createEvent on the calendar) up to its await
AddItem ==
  /\ page /= Null
  /\ CallsInFlight < MaxCalls
  /\ plast' = "addItem"
  /\ IF pfam = Null \/ ~pform
     THEN UNCHANGED <<pbusy, perr, pcalls>>
     ELSE /\ pbusy' = TRUE
          /\ perr' = Null
          /\ pcalls' = pcalls (+) SetToBag({PageCall("insert")})
  /\ UNCHANGED <<page, pfam, pform, ptable, pitems>>
  /\ UNCHANGED <<rvars, cvars, svars>>

\* addItem after the insert came back with an error: catch and finally
InsertFail ==
  /\ Live(PageCall("insert"))
  /\ pcalls' = pcalls (-) SetToBag({PageCall("insert")})
  /\ perr' = "error"
  /\ pbusy' = FALSE
  /\ plast' = "insert failed"
  /\ UNCHANGED <<page, pfam, pform, ptable, pitems>>
  /\ UNCHANGED <<rvars, cvars, svars>>

\* addItem after the insert succeeded: the form is reset and load() awaited
InsertOk ==
  /\ Live(PageCall("insert"))
  /\ ptable[page] < MaxItems
  /\ ptable' = [ptable EXCEPT ![page] = @ + 1]
  /\ pform' = FALSE
  /\ perr' = Null
  /\ pcalls' = LoadStarts(pcalls (-) SetToBag({PageCall("insert")}), "reload")
  /\ plast' = "insert ok"
  /\ UNCHANGED <<page, pfam, pbusy, pitems>>
  /\ UNCHANGED <<rvars, cvars, svars>>

\* toggleDone (updateEventStatus on the calendar) of a shown row, up to its await
ToggleDone ==
  /\ page /= Null
  /\ pitems > 0
  /\ CallsInFlight < MaxCalls
  /\ pcalls' = pcalls (+) SetToBag({PageCall("update")})
  /\ plast' = "toggleDone"
  /\ UNCHANGED <<page, pfam, pform, perr, pbusy, ptable, pitems>>
  /\ UNCHANGED <<rvars, cvars, svars>>

\* a toggleDone that says nothing about the error of its update
UpdateFailSilent ==
  /\ Live(PageCall("update"))
  /\ pcalls' = pcalls (-) SetToBag({PageCall("update")})
  /\ plast' = "update failed"
  /\ UNCHANGED <<page, pfam, pform, perr, pbusy, ptable, pitems>>
  /\ UNCHANGED <<rvars, cvars, svars>>

\* toggleDone after the update came back with an error
UpdateFail ==
  /\ Live(PageCall("update"))
  /\ pcalls' = pcalls (-) SetToBag({PageCall("update")})
  /\ perr' = "error"
  /\ plast' = "update failed"
  /\ UNCHANGED <<page, pfam, pform, pbusy, ptable, pitems>>
  /\ UNCHANGED <<rvars, cvars, svars>>

\* toggleDone after the update succeeded: load(), not awaited
UpdateOk ==
  /\ Live(PageCall("update"))
  /\ perr' = Null
  /\ pcalls' = LoadStarts(pcalls (-) SetToBag({PageCall("update")}), "load")
  /\ plast' = "update ok"
  /\ UNCHANGED <<page, pfam, pform, pbusy, ptable, pitems>>
  /\ UNCHANGED <<rvars, cvars, svars>>

\* load() after its await, and the finally of an addItem that awaited it
PageLoadDone(kind, ok) ==
  /\ kind \in {"load", "reload"}
  /\ Live(PageCall(kind))
  /\ pcalls' = pcalls (-) SetToBag({PageCall(kind)})
  /\ perr' = IF ok THEN perr ELSE "error"
  /\ pitems' = IF ok THEN ptable[page] ELSE pitems
  /\ pbusy' = IF kind = "reload" THEN FALSE ELSE pbusy
  /\ plast' = IF ok THEN "load ok" ELSE "load failed"
  /\ UNCHANGED <<page, pfam, pform, ptable>>
  /\ UNCHANGED <<rvars, cvars, svars>>

\* one hook instance (the claims about one resolver are checked on instance 1)
Solo == {1}

Next ==
  \/ \E c \in Solo : Mount(c)
  \/ \E u \in {"u1", Null} : SessionChange(u)
  \/ \E c \in Solo, id \in FamilyIds : SetActiveFamily(c, id)
  \/ \E c \in Solo, r \in ReadRecords : ReadFail(c, r)
  \/ \E c \in Solo, r \in ReadRecords : ReadOk(c, r)

Spec == Init /\ [][Next]_vars

\* two hook instances over one localStorage; the user, whose memberships are
\* A and B, signs in once
InitShared ==
  /\ InitResolver
  /\ membership["u1"] = <<"A", "B">>
  /\ InitChat

NextShared ==
  \/ \E c \in Consumers : Mount(c)
  \/ SessionChange("u1")
  \/ \E c \in Consumers, id \in FamilyIds : SetActiveFamily(c, id)
  \/ \E c \in Consumers, r \in ReadRecords : ReadFail(c, r)
  \/ \E c \in Consumers, r \in ReadRecords : ReadOk(c, r)

SpecShared == InitShared /\ [][NextShared]_vars

\* the chat page alone: nobody is signed in to the resolver instances
InitChatOnly ==
  /\ InitResolver
  /\ membership["u1"] = <<>>
  /\ ls = Null
  /\ InitChat

NextChat ==
  \/ \E f \in ChatFams : ServerInsert(f)
  \/ \E i \in 1..MaxMsgs : ServerDelete(i)
  \/ \E f \in ChatFams : ChatSelect(f)
  \/ \E l \in LoadRecords : LoadAnswer(l)
  \/ \E l \in LoadRecords : LoadDone(l)
  \/ \E l \in LoadRecords : LoadFail(l)
  \/ Deliver
  \/ Redeliver
  \/ \E id \in 1..MaxMsgs : FetchDone(id)
  \/ \E id \in 1..MaxMsgs : FetchFail(id)
  \/ MarkSettle

SpecChat == InitChatOnly /\ [][NextChat]_vars

\* ChatPage renders for the first time with a resolved family
Open == chatFam = Null /\ ChatSelect("A")

\* ChatPage of one family that stays selected, its bootstrap and the handlers
\* of its channel, with members that insert, edit and soft-delete
NextFeed ==
  \/ ServerInsert("A")
  \/ \E i \in 1..MaxMsgs : ServerDelete(i)
  \/ \E i \in 1..MaxMsgs : ServerEdit(i)
  \/ Open
  \/ \E l \in LoadRecords : LoadAnswer(l)
  \/ \E l \in LoadRecords : LoadDone(l)
  \/ Deliver
  \/ \E id \in 1..MaxMsgs : FetchDone(id)

SpecFeed == InitChatOnly /\ [][NextFeed]_vars

\* ChatPage whose selection moves between two families, with its bootstrap,
\* the INSERT handler of its channel and the mark-as-read calls
NextReceipt ==
  \/ \E f \in ChatFams : ServerInsert(f)
  \/ \E f \in ChatFams : ChatSelect(f)
  \/ \E l \in LoadRecords : LoadAnswer(l)
  \/ \E l \in LoadRecords : LoadDone(l)
  \/ Deliver
  \/ \E id \in 1..MaxMsgs : FetchDone(id)
  \/ MarkSettle

SpecReceipt == InitChatOnly /\ [][NextReceipt]_vars

\* a member inserts a message of family A before ChatPage has selected it or
\* after its bootstrap has completed
OrderedInsert ==
  /\ chatFam = Null \/ (loads = EmptyBag /\ ~chatLoading)
  /\ ServerInsert("A")

\* ChatPage of one family whose channel delivers every event once, in creation
\* order, and only after the bootstrap
NextOrdered ==
  \/ OrderedInsert
  \/ \E i \in 1..MaxMsgs : ServerDelete(i)
  \/ Open
  \/ \E l \in LoadRecords : LoadAnswer(l)
  \/ \E l \in LoadRecords : LoadDone(l)
  \/ Deliver
  \/ \E id \in 1..MaxMsgs : FetchDone(id)
  \/ \E id \in 1..MaxMsgs : FetchFail(id)
  \/ MarkSettle

SpecOrdered == InitChatOnly /\ [][NextOrdered]_vars

\* ChatPage of one family with its bootstrap, the INSERT handler and the
\* composer
NextSend ==
  \/ ServerInsert("A")
  \/ Open
  \/ \E l \in LoadRecords : LoadAnswer(l)
  \/ \E l \in LoadRecords : LoadDone(l)
  \/ Deliver
  \/ \E id \in 1..MaxMsgs : FetchDone(id)
  \/ \E t \in Texts : TypeText(t)
  \/ \E i \in 0..MaxMsgs : SetReplyTo(i)
  \/ SendMessage
  \/ \E file \in BOOLEAN : HandleFileSelect(file)

SpecSend == InitChatOnly /\ [][NextSend]_vars

\* ShoppingPage or CalendarPage with its reads and mutations
NextPages ==
  \/ \E v \in Views : PageMount(v)
  \/ PageLeave
  \/ PageResolve
  \/ FillForm
  \/ AddItem
  \/ InsertFail
  \/ InsertOk
  \/ ToggleDone
  \/ UpdateFail
  \/ UpdateOk
  \/ \E kind \in {"load", "reload"}, ok \in BOOLEAN : PageLoadDone(kind, ok)

SpecPages == InitChatOnly /\ [][NextPages]_vars

\* ChatPage has just selected family A, which has about Limit messages
InitWindow ==
  /\ InitResolver
  /\ membership["u1"] = <<>>
  /\ ls = Null
  /\ \E n \in (Limit - 1)..(Limit + MaxOver) : rows = [i \in 1..n |-> Row("A")]
  /\ chatFam = "A"
  /\ messages = <<>>
  /\ chatLoading = TRUE
  /\ loads = SetToBag({Load("A", Pending)})
  /\ channel = "A"
  /\ channels = {"A"}
  /\ events = <<>>
  /\ fetches = EmptyBag
  /\ dups = 0
  /\ mark = NoCall
  /\ pub = {}
  /\ struck = FALSE
  /\ InitSend

\* a member soft-deletes the oldest message, the one at the limit or the newest
WindowDelete == \E i \in {1, Limit, Len(rows)} : ServerDelete(i)

WindowAnswer == \E l \in BagToSet(loads) : LoadAnswer(l)

WindowDone == \E l \in BagToSet(loads) : LoadDone(l)

NextWindow ==
  \/ WindowDelete
  \/ WindowAnswer
  \/ WindowDone
  \/ Deliver
  \/ MarkSettle

SpecWindow == InitWindow /\ [][NextWindow]_vars

(***************************************************************************)
(* Properties of the resolver                                              *)
(***************************************************************************)
OnlyInstance(c) == mounted = {c}

\* C1: a read that succeeds with a non-empty list L, for a run of the effect
\* that captured the selection S, leaves the selection as it is when S is in
\* L, and sets it to L[1], the first row, when S is null or not in L.
C1_ReconcileNonEmpty ==
  [][\A c \in Consumers, r \in ReadRecords :
       (ReadOk(c, r) /\ membership[r.user] /= <<>>) =>
         LET L == membership[r.user]
         IN IF r.cap /= Null /\ r.cap \in Elems(L)
            THEN act'[c] = act[c]
            ELSE act'[c] = L[1]]_vars

\* a read has just replaced a stale candidate by the first row
C1_Witness ==
  /\ last.op = "ReadOk"
  /\ last.cap /= Null
  /\ membership[last.user] /= <<>>
  /\ last.cap \notin Elems(membership[last.user])
  /\ act[last.c] = membership[last.user][1]

\* C2: a read that succeeds with an empty list sets the selection to null,
\* whatever the candidate was.
C2_EmptyListClears ==
  [][\A c \in Consumers, r \in ReadRecords :
       (ReadOk(c, r) /\ membership[r.user] = <<>>) => act'[c] = Null]_vars

\* C3: setActiveFamily(id) changes neither the selection nor the stored value
\* when id is not among families, and sets both to id when it is.
C3_SelectOnlyAvailable ==
  [][\A c \in Consumers, id \in FamilyIds :
       SetActiveFamily(c, id) =>
         IF id \in Elems(families[c])
         THEN act'[c] = id /\ ls' = id
         ELSE act'[c] = act[c] /\ ls' = ls]_vars

\* C4: when the user has selected B and a read issued for an earlier
\* selection A resolves with a list that contains B, the selection and the
\* stored value are still B.
C4_StaleReadKeepsSelection ==
  [][\A c \in Consumers, r \in ReadRecords :
       ( /\ byUser[c]
         /\ r.cap /= Null
         /\ r.cap /= act[c]
         /\ ls = act[c]
         /\ act[c] \in Elems(membership[r.user])
         /\ ReadOk(c, r) ) =>
         (act'[c] = act[c] /\ ls' = ls)]_vars

\* C5: the store held P at start-up, every read so far succeeded with a list
\* that contains P, nobody selected a family, and no read is in flight: the
\* selection of the one instance is P and the store holds P.
C5_RestartRecovery ==
  \A c \in Consumers :
    (OnlyInstance(c) /\ ls0 /= Null /\ clean /\ reads[c] = EmptyBag) =>
      (act[c] = ls0 /\ ls = ls0)

\* C6: every step that gives the selection a new non-null value stores that
\* value in the same step, and with one instance a non-null selection equals
\* the stored value.
C6_SelectionPersisted ==
  /\ [][\A c \in Consumers :
          (act'[c] /= act[c] /\ act'[c] /= Null) => ls' = act'[c]]_vars
  /\ [](\A c \in Consumers :
          (OnlyInstance(c) /\ act[c] /= Null) => act[c] = ls)

\* a read has just overridden the candidate and the store follows
C6_Witness ==
  /\ last.op = "ReadOk"
  /\ OnlyInstance(last.c)
  /\ ls0 /= Null
  /\ act[last.c] /= ls0
  /\ act[last.c] = ls
  /\ ~byUser[last.c]

\* C7: a failed read sets the error, empties families, ends loading and
\* leaves the selection and the stored value as they were.
C7_ReadFailure ==
  [][\A c \in Consumers, r \in ReadRecords :
       ReadFail(c, r) =>
         /\ error'[c] /= Null
         /\ families'[c] = <<>>
         /\ loading'[c] = FALSE
         /\ act'[c] = act[c]
         /\ ls' = ls]_vars

\* a read has just failed while a family was selected
C7_Witness ==
  /\ last.op = "ReadFail"
  /\ act[last.c] /= Null
  /\ error[last.c] /= Null
  /\ families[last.c] = <<>>

\* C8: two mounted instances never hold different selections.
C8_OneSelection ==
  \A c1, c2 \in mounted : act[c1] = act[c2]

C10_UniqueIds ==
  \A i, j \in 1..Len(messages) : i /= j => messages[i] /= messages[j]

\* every event the channel was given has been delivered and its handler has
\* run to its end
Handled == events = <<>> /\ fetches = EmptyBag

\* C11: once the events delivered so far have been handled, the sequence of the
\* selected family holds no message whose server row is flagged deleted, also
\* when the update event of a message arrived while its insert event was still
\* fetching the full record.
C11_NoDeletedShown ==
  (Handled /\ channel = chatFam) =>
    \A i \in 1..Len(messages) :
      rows[messages[i]].fam = chatFam => ~rows[messages[i]].deleted

\* s with every occurrence of id taken out, the other elements in their order
RECURSIVE Strip(_, _)
Strip(s, id) ==
  IF s = <<>> THEN <<>>
  ELSE IF Head(s) = id THEN Strip(Tail(s), id)
  ELSE <<Head(s)>> \o Strip(Tail(s), id)

C13_NoLostInsert ==
  (loads = EmptyBag /\ Handled /\ channel = chatFam) =>
    \A m \in pub : ~rows[m].deleted => m \in Elems(messages)

\* C14: the result of a bulk read issued for a family that is no longer the
\* selected one is not applied when it arrives.
C14_StaleLoadDiscarded ==
  [][\A l \in LoadRecords :
       (LoadDone(l) /\ l.fam /= chatFam) => (messages' = messages)]_vars

\* C15: after the selected family has changed and the channel of the old family
\* was released, no event of the old channel changes the sequence, also not an
\* insert event received before the release whose fetch resolves after it.
C15_Teardown ==
  [][\A id \in 1..MaxMsgs :
       (FetchDone(id) /\ rows[id].fam /= channel) => (messages' = messages)]_vars

\* C16: from the moment the selection changes, the view holds no message of
\* another family than the selected one, also while the bootstrap read is
\* outstanding, after it failed, and when nothing is selected.
C16_SwitchDiscards ==
  \A i \in 1..Len(messages) : rows[messages[i]].fam = chatFam

\* C17: after the bootstrap and insert events that all arrive after it, delivered
\* in creation order, the sequence is non-decreasing by creation time, in
\* whichever order the full-record fetches of the events resolve.
C17_Ordered ==
  \A i, j \in 1..Len(messages) : i < j => messages[i] <= messages[j]

\* C18: the bootstrap query of family F answers with the non-deleted messages
\* of F that are the most recent Limit by creation time, in ascending order (so
\* the newest one is among them), and a successful bootstrap replaces the
\* sequence by that answer.
C18_BootstrapWindow ==
  [][\A l \in BagToSet(loads) :
       LET ids == [i \in 1..Len(rows) |-> i]
           Kept(i) == rows[i].fam = l.fam /\ ~rows[i].deleted
           asc == SelectSeq(ids, Kept)
           recent == SubSeq(asc, Len(asc) - Min(Len(asc), Limit) + 1, Len(asc))
       IN  /\ LoadAnswer(l) => BagIn(Load(l.fam, recent), loads')
           /\ LoadDone(l) => (messages' = l.res)]_vars

\* C19: whenever a bootstrap read is outstanding, on a first selection or on a
\* re-selection, the view is in the loading state, and no insert or update
\* event changes the sequence until that bootstrap has completed.
C19_LoadingWhileBootstrap ==
  /\ [](loads /= EmptyBag => chatLoading)
  /\ [][(loads /= EmptyBag /\ (Deliver \/ Redeliver \/ \E id \in 1..MaxMsgs : FetchDone(id)))
          => (messages' = messages)]_vars

\* the identifier of the last message shown, 0 without messages
LastOf(s) == IF s = <<>> THEN 0 ELSE s[Len(s)]

\* C20: whenever the last element of a non-empty sequence changes, by an append
\* or by a bootstrap that completes with at least one message, a mark-read call
\* for the selected family and the identifier of the new last element is issued;
\* when the call settles, also with a failure, no client state changes and no
\* call is outstanding.
C20_ReadReceipt ==
  /\ [][(messages' /= <<>> /\ LastOf(messages') /= LastOf(messages)) =>
          (mark' = [fam |-> chatFam', id |-> LastOf(messages')])]_vars
  /\ [][MarkSettle =>
          (mark' = NoCall /\ UNCHANGED <<chatFam, messages, chatLoading, loads, fetches>>)]_vars

\* a call for the new last element of a sequence of two is outstanding
C20_Witness ==
  /\ Len(messages) >= 2
  /\ messages[1] /= LastOf(messages)
  /\ mark = [fam |-> chatFam, id |-> LastOf(messages)]

\* C21: sendMessage with a text that is not blank, a family selected and no
\* send in progress issues exactly one insert call, which carries the family,
\* the member of the sender, the trimmed text and the reply target or null.
C21_SendIssuesInsert ==
  [][(SendMessage /\ Trim(newMessage) /= "" /\ chatFam /= Null /\ ~sending) =>
       \E c \in BagToSet(outbox') :
         /\ outbox' = outbox (+) SetToBag({c})
         /\ c.fam = chatFam
         /\ c.sender /= Null
         /\ c.content = Trim(newMessage)
         /\ c.reply = replyTo]_vars

C23_MediaSend ==
  /\ [][(HandleFileSelect(TRUE) /\ chatFam /= Null) =>
          (uploads' = uploads (+) SetToBag({UploadCall(chatFam, replyTo)}))]_vars
  /\ [][\A c \in BagToSet(outbox') :
          (c.media /\ ~BagIn(c, outbox)) =>
             \E u \in BagToSet(uploads) : UploadDone(u, TRUE)]_vars
  /\ [][(\E u \in BagToSet(uploads) : UploadDone(u, FALSE)) =>
          (outbox' = outbox /\ ~sending')]_vars
  /\ [][(\E c \in BagToSet(outbox) : MediaDone(c)) => ~sending']_vars

\* mutation calls of the mounted page that are in flight
Mutations(calls) ==
  CopiesIn(PageCall("insert"), calls) + CopiesIn(PageCall("update"), calls)

ChatView == IF chatLoading THEN "loading" ELSE "messages"

\* C25: a failed bulk read of the messages leaves the materialized sequence
\* as it was and puts the chat view in a visible error state
C25_LoadFailureVisible ==
  [][\A l \in LoadRecords :
       LoadFail(l) => (messages' = messages /\ ChatView' = "error")]_vars

\* two identities with memberships of their own; nobody is signed in yet
InitIdentity ==
  /\ membership \in [Users -> Lists]
  /\ session = Null
  /\ ls \in FamilyIds \cup {Null}
  /\ mounted = {}
  /\ families = [c \in Consumers |-> <<>>]
  /\ act = [c \in Consumers |-> Null]
  /\ loading = [c \in Consumers |-> TRUE]
  /\ error = [c \in Consumers |-> Null]
  /\ reads = [c \in Consumers |-> EmptyBag]
  /\ byUser = [c \in Consumers |-> FALSE]
  /\ clean = TRUE
  /\ ls0 = ls
  /\ last = NoLast
  /\ InitChat

\* the session changes from u1 to u2 while a membership read of u1 is in
\* flight
Relogin ==
  /\ session = "u1"
  /\ \E c \in mounted : \E r \in BagToSet(reads[c]) : r.user = "u1"
  /\ SessionChange("u2")

\* one hook instance; u1 signs in, then u2 in u1's place
NextIdentity ==
  \/ \E c \in Solo : Mount(c)
  \/ session = Null /\ SessionChange("u1")
  \/ Relogin
  \/ \E c \in Solo, r \in ReadRecords : ReadOk(c, r)

SpecIdentity == InitIdentity /\ [][NextIdentity]_vars

\* C26: after the identity changed from u1 to u2 with a read of u1 in flight,
\* once no read is outstanding the list is u2's membership list and the
\* selection is one of u2's families, whichever read resolved last
C26_IdentityFencing ==
  \A c \in mounted :
    (session = "u2" /\ InFlight(c) = 0 /\ membership["u2"] /= <<>>) =>
      (families[c] = membership["u2"] /\ Some(membership["u2"], act[c]))

\* C27: the message identifier of every mark-as-read call belongs to the
\* family identifier of the same call, also between a change of the active
\* family and the bootstrap of the new family
C27_MarkReadConsistent ==
  mark /= NoCall => rows[mark.id].fam = mark.fam

\* C28: at most one channel is open at any time and it is the channel of the
\* selected family; without a selected family no channel is open
C28_OneChannel ==
  /\ Cardinality(channels) <= 1
  /\ (chatFam = Null => channels = {})
  /\ (chatFam /= Null => channels = {chatFam})

\* family A is selected after family B, whose bootstrap read is still in
\* flight, and the one open channel is A's
C28_Witness ==
  /\ chatFam = "A"
  /\ channels = {"A"}
  /\ \E l \in BagToSet(loads) : l.fam = "B"

\* C29: the loading flag of a resolver is never false while one of its
\* membership reads is in flight, overlapping reads included
C29_LoadingWhileReading ==
  \A c \in mounted : InFlight(c) > 0 => loading[c]

====
